---- MODULE Spec2Model ----
(***************************************************************************)
(* LingoLens MVP simulator (src/app.py): a Streamlit script that is re-run  *)
(* from top to bottom on every user event.  The model keeps the session    *)
(* state, the widget values that survive a re-run, the transient audio     *)
(* file, and the elements the latest run put on the page.                  *)
(***************************************************************************)
EXTENDS Integers, Sequences, FiniteSets, TLC

\* ------------------------------------------------------------------ bounds

\* Longest model response, in tokens.
MaxLen == 5
\* How often the adapter is called again on the same response (SpecAdapter).
MaxCalls == 2

\* ------------------------------------------------------- text of a response

\* Python's None.
None == "None"

\* A response is a sequence of tokens.  MUG and KEY stand for the JSON objects
\* {"english_name": "mug", "chinese_name": "makebei"} and
\* {"english_name": "key", "chinese_name": "yaoshi"}; HALF for the object
\* {"english_name": "pen"}, which lacks chinese_name.
ValueTokens == {"MUG", "KEY", "HALF"}
Tokens == {"[", "]", ",", " "} \cup ValueTokens

RECURSIVE SeqsUpTo(_, _)
SeqsUpTo(S, n) ==
    IF n = 0 THEN {<<>>}
    ELSE LET shorter == SeqsUpTo(S, n - 1)
         IN  shorter \cup {Append(s, t) : s \in {x \in shorter : Len(x) = n - 1}, t \in S}

\* Every text the generative model can answer with (response.text, line 87).
Responses == SeqsUpTo(Tokens, MaxLen)

\* A decoded JSON value: a dict (with the keys it has), or a list of values.
Dict(keys, en, zh) ==
    [kind |-> "dict", keys |-> keys, english_name |-> en, chinese_name |-> zh, items |-> <<>>]
List(items) ==
    [kind |-> "list", keys |-> {}, english_name |-> None, chinese_name |-> None, items |-> items]

\* The value one object token decodes to.
Decode(tok) ==
    CASE tok = "MUG"  -> Dict({"english_name", "chinese_name"}, "mug", "makebei")
      [] tok = "KEY"  -> Dict({"english_name", "chinese_name"}, "key", "yaoshi")
      [] tok = "HALF" -> Dict({"english_name"}, "pen", None)

\* str.strip(): leading and trailing whitespace removed.
RECURSIVE strip(_)
strip(s) ==
    IF s = <<>> THEN s
    ELSE IF Head(s) = " " THEN strip(Tail(s))
    ELSE IF s[Len(s)] = " " THEN strip(SubSeq(s, 1, Len(s) - 1))
    ELSE s

startswith(s, tok) == Len(s) >= 1 /\ s[1] = tok
endswith(s, tok) == Len(s) >= 1 /\ s[Len(s)] = tok

\* Index of the first non-blank token at or after i (Len(s) + 1 if none).
RECURSIVE SkipWs(_, _)
SkipWs(s, i) == IF i <= Len(s) /\ s[i] = " " THEN SkipWs(s, i + 1) ELSE i

ParseFail == [ok |-> FALSE, val |-> List(<<>>), next |-> 0]

\* The JSON grammar on tokens: value ::= object | '[' ws ']' |
\* '[' ws value ws (',' ws value ws)* ']'.  ParseValue reads one value at i.
RECURSIVE ParseValue(_, _)
RECURSIVE ParseElems(_, _, _)
ParseValue(s, i) ==
    IF i > Len(s) THEN ParseFail
    ELSE IF s[i] \in ValueTokens THEN [ok |-> TRUE, val |-> Decode(s[i]), next |-> i + 1]
    ELSE IF s[i] = "["
         THEN LET j == SkipWs(s, i + 1)
              IN  IF j <= Len(s) /\ s[j] = "]"
                  THEN [ok |-> TRUE, val |-> List(<<>>), next |-> j + 1]
                  ELSE ParseElems(s, j, <<>>)
    ELSE ParseFail

\* The elements of an array from i on, acc holding those already read.
ParseElems(s, i, acc) ==
    LET v == ParseValue(s, i)
    IN  IF ~v.ok THEN ParseFail
        ELSE LET j == SkipWs(s, v.next)
             IN  IF j > Len(s) THEN ParseFail
                 ELSE IF s[j] = "," THEN ParseElems(s, SkipWs(s, j + 1), Append(acc, v.val))
                 ELSE IF s[j] = "]"
                      THEN [ok |-> TRUE, val |-> List(Append(acc, v.val)), next |-> j + 1]
                 ELSE ParseFail

\* json.loads(text): the decoded document, or JSONDecodeError (ok = FALSE) when
\* the text is no JSON value or data follows the value.
json_loads(s) ==
    LET i == SkipWs(s, 1)
        v == ParseValue(s, i)
    IN  IF v.ok /\ SkipWs(s, v.next) = Len(s) + 1 THEN v ELSE ParseFail

\* ---------------------------------------------------- image analysis adapter

\* What one call of the remote model does: the image decodes or not
\* (Image.open), the call returns a text or throws (generate_content).
AnalysisEnvs ==
    {[decode |-> FALSE, remote |-> FALSE, text |-> <<>>],
     [decode |-> TRUE, remote |-> FALSE, text |-> <<>>]}
    \cup {[decode |-> TRUE, remote |-> TRUE, text |-> r] : r \in Responses}

\* analyze_image_for_words with the st.error of line 93 left out: an
\* unbracketed response gives [] and no message.
analyze_image_for_words_silent(env) ==
    IF ~env.decode \/ ~env.remote
    THEN [returned |-> <<>>, errors |-> <<"analysis_exception">>, raised |-> FALSE, path |-> "exception"]
    ELSE LET response_text == strip(env.text)
         IN  IF startswith(response_text, "[") /\ endswith(response_text, "]")
             THEN LET objects_list == json_loads(response_text)
                  IN  IF objects_list.ok
                      THEN [returned |-> objects_list.val.items, errors |-> <<>>,
                            raised |-> FALSE, path |-> "ok"]
                      ELSE [returned |-> <<>>, errors |-> <<"cannot_parse_json">>,
                            raised |-> FALSE, path |-> "json"]
             ELSE [returned |-> <<>>, errors |-> <<>>, raised |-> FALSE, path |-> "format"]

\* analyze_image_for_words(image_bytes): the list it returns, the st.error
\* messages it emits, whether an exception leaves it, and the return it took.
analyze_image_for_words(env) ==
    IF ~env.decode \/ ~env.remote
    THEN [returned |-> <<>>, errors |-> <<"analysis_exception">>, raised |-> FALSE, path |-> "exception"]
    ELSE LET response_text == strip(env.text)
         IN  IF startswith(response_text, "[") /\ endswith(response_text, "]")
             THEN LET objects_list == json_loads(response_text)
                  IN  IF objects_list.ok
                      THEN [returned |-> objects_list.val.items, errors |-> <<>>,
                            raised |-> FALSE, path |-> "ok"]
                      ELSE [returned |-> <<>>, errors |-> <<"cannot_parse_json">>,
                            raised |-> FALSE, path |-> "json"]
             ELSE [returned |-> <<>>, errors |-> <<"bad_response_format">>,
                   raised |-> FALSE, path |-> "format"]

\* The object tokens of a text, decoded, in the order they stand in it: what
\* the model listed, read off the text without parsing it.
RECURSIVE values_of(_)
values_of(text) ==
    IF text = <<>> THEN <<>>
    ELSE IF Head(text) \in ValueTokens THEN <<Decode(Head(text))>> \o values_of(Tail(text))
    ELSE values_of(Tail(text))

\* The dicts of a decoded list, nested lists opened, in order.
RECURSIVE Flatten(_)
Flatten(items) ==
    IF items = <<>> THEN <<>>
    ELSE IF Head(items).kind = "list" THEN Flatten(Head(items).items) \o Flatten(Tail(items))
    ELSE <<Head(items)>> \o Flatten(Tail(items))

\* One call of the adapter from the analyze handler: what it did, and what the
\* model had listed.
CallRecord(r, text) ==
    [returned |-> r.returned, errors |-> r.errors, raised |-> r.raised, path |-> r.path,
     model_values |-> IF r.path = "ok" THEN values_of(text) ELSE <<>>]
AnalysisCall(env) == CallRecord(analyze_image_for_words(env), env.text)

\* Every outcome a call of the adapter has, over all answers of the model.
AnalysisCalls == {AnalysisCall(env) : env \in AnalysisEnvs}

NoAnalysis ==
    [returned |-> <<>>, errors |-> <<>>, raised |-> FALSE, path |-> "none", model_values |-> <<>>]

\* --------------------------------------------------- speech synthesis adapter

\* What the synthesis service does with one request.
TtsEnvs == {"audio", "fail"}

\* get_tts_audio with the st.error of line 55 left out: the except branch
\* returns None and reports nothing.
get_tts_audio_quiet(text_to_speak, env) ==
    IF env = "audio"
    THEN [called |-> TRUE, failed |-> FALSE, text |-> text_to_speak, returned |-> "MP3",
          errors |-> <<>>, raised |-> FALSE]
    ELSE [called |-> TRUE, failed |-> TRUE, text |-> text_to_speak, returned |-> None,
          errors |-> <<>>, raised |-> FALSE]

\* get_tts_audio(text_to_speak): response.audio_content, or, when anything in
\* the try block throws, one st.error and None.
get_tts_audio(text_to_speak, env) ==
    IF env = "audio"
    THEN [called |-> TRUE, failed |-> FALSE, text |-> text_to_speak, returned |-> "MP3",
          errors |-> <<>>, raised |-> FALSE]
    ELSE [called |-> TRUE, failed |-> TRUE, text |-> text_to_speak, returned |-> None,
          errors |-> <<"tts_failed">>, raised |-> FALSE]

NoTts == [called |-> FALSE, failed |-> FALSE, text |-> None, returned |-> None, errors |-> <<>>, raised |-> FALSE]

\* ------------------------------------------------------------- the page

Photos == {"A", "B"}
Texts == {"", "hello"}
AudioPath == "recording.wav"

\* An element of the page: a widget or a piece of output.
El(kind, text) == [kind |-> kind, text |-> text]
NoClick == El("none", "")
AnalyzeButton == El("button", "Analyze Photo for Words")
StartButton == El("button", "Start Recording")
StopButton == El("button", "Stop Recording")
SendButton == El("button", "Send to AI")
TextInput == El("text_input", "Or type your message here:")
CameraInput == El("camera_input", "Take Photo")
\* The pronounce button of a row, known to the page by key=f"pronounce_{name}".
PronounceButton(english_name) == El("pronounce_button", english_name)

Errors(els) == SelectSeq(els, LAMBDA e : e.kind = "error")
AsErrors(msgs) == [i \in 1..Len(msgs) |-> El("error", msgs[i])]
\* The uncaught exception that ended the run, None when it ran to its end.
Fault(els) == IF els # <<>> /\ els[Len(els)].kind = "exception" THEN els[Len(els)].text ELSE None
Shows(els, el) == \E i \in 1..Len(els) : els[i] = el

\* Python truthiness of bytes-or-None, and of a path-or-None.
Truthy(x) == x \notin {None, ""}

\* The values lines 106-117 give the keys that are not in st.session_state.
Defaults ==
    [conversation |-> <<>>, feedback_log |-> <<>>, current_image |-> None,
     audio_filename |-> None, is_recording |-> FALSE, analyzed_objects |-> <<>>]

\* init_session_state without the "not in" tests: every run assigns the defaults.
init_session_state_always(ss) == Defaults

\* Lines 105-117: a key is set only when it is not in the session state yet.
init_session_state(ss) ==
    [k \in DOMAIN ss \cup DOMAIN Defaults |-> IF k \in DOMAIN ss THEN ss[k] ELSE Defaults[k]]

\* Lines 146-168: the rows of analyzed_objects from row i on.  c carries the
\* elements so far, the keys already used by a button, and the synthesis call.
RECURSIVE render_rows(_, _, _, _)
render_rows(objs, i, c, w) ==
    IF i > Len(objs) THEN c
    ELSE LET obj == objs[i]
             stop(exc, els) == [c EXCEPT !.view = c.view \o els \o <<El("exception", exc)>>]
         IN  IF obj.kind # "dict" THEN stop("TypeError", <<>>)
             ELSE IF "english_name" \notin obj.keys THEN stop("KeyError", <<>>)
             ELSE IF "chinese_name" \notin obj.keys
                  THEN stop("KeyError", <<El("markdown", obj.english_name)>>)
             ELSE IF PronounceButton(obj.english_name) \in c.used
                  THEN stop("DuplicateWidgetID",
                            <<El("markdown", obj.english_name), El("markdown", obj.chinese_name)>>)
             ELSE LET cells == <<El("markdown", obj.english_name), El("markdown", obj.chinese_name),
                                 PronounceButton(obj.english_name)>>
                      tts == IF w.clicked = PronounceButton(obj.english_name)
                             THEN get_tts_audio(obj.english_name, w.tts_env)
                             ELSE c.tts
                      spoken == IF w.clicked # PronounceButton(obj.english_name) THEN <<>>
                                ELSE AsErrors(tts.errors) \o
                                     (IF Truthy(tts.returned)
                                      THEN <<El("audio", "audio/mp3")>>
                                      ELSE <<El("error", "cannot_pronounce")>>)
                  IN  render_rows(objs, i + 1,
                          [view |-> c.view \o cells \o spoken \o <<El("markdown", "---")>>,
                           used |-> c.used \cup {PronounceButton(obj.english_name)},
                           tts |-> tts], w)

\* analyze_handler with extend in place of the assignment of line 136: the
\* results are added to the stored list.
analyze_handler_extend(ss, call) ==
    [ss EXCEPT !.analyzed_objects = @ \o call.returned]

\* Lines 131-136: the results of the call replace analyzed_objects.
analyze_handler(ss, call) ==
    IF ss.current_image # None
    THEN [ss EXCEPT !.analyzed_objects = call.returned]
    ELSE ss

\* The camera section once the rows are rendered.
results_area(ss, c) ==
    [ss |-> ss, view |-> c.view, rerun |-> FALSE, analysis |-> NoAnalysis, tts |-> c.tts]

\* Lines 124-170: the camera section of the page.
camera_section(ss, w) ==
    IF w.camera = None
    THEN [ss |-> ss, view |-> <<CameraInput>>, rerun |-> FALSE, analysis |-> NoAnalysis, tts |-> NoTts]
    ELSE LET ss2 == [ss EXCEPT !.current_image = w.camera]
             top == <<CameraInput, El("image", w.camera), AnalyzeButton>>
         IN  IF w.clicked = AnalyzeButton
             THEN [ss |-> analyze_handler(ss2, w.analysis),
                   view |-> top \o (IF ss2.current_image # None THEN AsErrors(w.analysis.errors) ELSE <<>>),
                   rerun |-> ss2.current_image # None,
                   analysis |-> IF ss2.current_image # None THEN w.analysis ELSE NoAnalysis,
                   tts |-> NoTts]
             ELSE IF ss2.analyzed_objects # <<>>
                  THEN results_area(ss2,
                           render_rows(ss2.analyzed_objects, 1,
                               [view |-> top \o <<El("markdown", "Analysis Results")>>,
                                used |-> {}, tts |-> NoTts], w))
                  ELSE [ss |-> ss2,
                        view |-> top \o <<El("markdown", "Analysis Results"), El("info", "click_analyze")>>,
                        rerun |-> FALSE, analysis |-> NoAnalysis, tts |-> NoTts]

\* Lines 189-191: one chat message per entry of the conversation.
chat_history(ss) ==
    [i \in 1..Len(ss.conversation) |->
        El(IF ss.conversation[i].role = "user" THEN "chat_user" ELSE "chat_assistant",
           ss.conversation[i].text)]

\* What the playback block did in a run: read is what open/read did, or says
\* that the block was not entered (idle: no path; skipped: no file at the
\* path) or not reached; removed is whether os.remove deleted the file.
Playback(read, removed) == [read |-> read, removed |-> removed]

\* Lines 202-216: the transient audio file is played and removed.  w.read is
\* what open/read does (ok, notfound when the file went away after the exists
\* test, error otherwise); w.remove_ok is whether os.remove succeeds on a file
\* that is there.
playback_block(ss, exists, w) ==
    IF Truthy(ss.audio_filename) /\ exists
    THEN [view |-> CASE w.read = "ok" -> <<El("audio", "audio/wav")>>
                     [] w.read = "notfound" -> <<El("error", "audio_not_found")>>
                     [] OTHER -> <<El("error", "playback_error")>>,
          exists |-> w.read # "notfound" /\ ~w.remove_ok,
          status |-> Playback(w.read, w.read # "notfound" /\ w.remove_ok)]
    ELSE [view |-> <<>>, exists |-> exists,
          status |-> Playback(IF Truthy(ss.audio_filename) THEN "skipped" ELSE "idle", FALSE)]

\* Lines 219-220: the text box and the Send to AI button, whose result is not read.
send_section(ss, w) == ss

\* Lines 236-237: the coach feedback log.
feedback_section(ss) == [i \in 1..Len(ss.feedback_log) |-> El("feedback", ss.feedback_log[i])]

\* Lines 172-237, after the camera section cam: the run has ended there at
\* st.rerun() (line 138) or at an uncaught exception, or goes on to the end.
rest_of_page(cam, exists, w) ==
        IF cam.rerun \/ Fault(cam.view) # None
        THEN [ss |-> cam.ss, view |-> cam.view, rerun |-> cam.rerun, exists |-> exists,
              analysis |-> cam.analysis, tts |-> cam.tts, playback |-> Playback("unreached", FALSE)]
        ELSE LET play == playback_block(cam.ss, exists, w)
             IN  [ss |-> send_section(cam.ss, w),
                  view |-> cam.view \o chat_history(cam.ss) \o <<StartButton, StopButton>>
                           \o play.view \o <<TextInput, SendButton>> \o feedback_section(cam.ss),
                  rerun |-> FALSE, exists |-> play.exists,
                  analysis |-> cam.analysis, tts |-> cam.tts, playback |-> play.status]

\* One run of the script, top to bottom, on the widget values and clicks w.
script(ss0, exists, w) == rest_of_page(camera_section(init_session_state(ss0), w), exists, w)

VARIABLES
    session_state,        \* st.session_state: a mapping from the keys set so far
    img_file_buffer,      \* the photo the camera widget holds, or None
    user_input,           \* the text the text box holds
    audio_file_exists,    \* whether the file at AudioPath exists
    view,                 \* the elements the latest run put on the page
    event,                \* the user event that caused the latest run
    last_analysis,        \* the most recent call of analyze_image_for_words
    last_tts,             \* the call of get_tts_audio in the latest run, if any
    playback,             \* what the playback block did in the latest run
    played_before,        \* a run before the latest one opened the audio file
    fired_since_capture,  \* Analyze was clicked since the latest photo was taken
    adapterCall           \* the adapter called on its own (SpecAdapter)

vars == <<session_state, img_file_buffer, user_input, audio_file_exists, view, event,
          last_analysis, last_tts, playback, played_before, fired_since_capture, adapterCall>>

page_vars == <<session_state, img_file_buffer, user_input, audio_file_exists, view, event,
               last_analysis, last_tts, playback, played_before, fired_since_capture>>


\* ------------------------------------------------------------ the session

NoCall == [calls |-> 0, returned |-> <<>>, errors |-> <<>>, raised |-> FALSE, path |-> "none"]
IdleAdapter == [env |-> [decode |-> FALSE, remote |-> FALSE, text |-> <<>>], out |-> NoCall]

\* What open/read of the audio file can do.
ReadOutcomes == {"ok", "notfound", "error"}

\* A session before its first run: no key is set, nothing is on the page.
InitPage(ss, exists) ==
    /\ session_state = ss
    /\ img_file_buffer = None
    /\ user_input = ""
    /\ audio_file_exists = exists
    /\ view = <<>>
    /\ event = "none"
    /\ last_analysis = NoAnalysis
    /\ last_tts = NoTts
    /\ playback = Playback("idle", FALSE)
    /\ played_before = FALSE
    /\ fired_since_capture = FALSE

Init ==
    /\ InitPage([k \in {} |-> None], FALSE)
    /\ adapterCall = IdleAdapter

\* A user event: the script runs on the widget values and the click, and once
\* more, without the click, when the run ended in st.rerun().
Run(ev, camera, text, clicked, call, tts_env) ==
    \E read \in ReadOutcomes, remove_ok \in BOOLEAN :
      \E w \in {[camera |-> camera, text |-> text, clicked |-> clicked, analysis |-> call,
                 tts_env |-> tts_env, read |-> read, remove_ok |-> remove_ok]} :
        \E p1 \in {script(session_state, audio_file_exists, w)} :
          \E p2 \in {IF p1.rerun
                      THEN script(p1.ss, p1.exists, [w EXCEPT !.clicked = NoClick])
                      ELSE p1} :
            /\ session_state' = p2.ss
            /\ img_file_buffer' = camera
            /\ user_input' = text
            /\ audio_file_exists' = p2.exists
            /\ view' = p2.view
            /\ event' = ev
            /\ last_analysis' = IF p1.analysis.path # "none" THEN p1.analysis ELSE last_analysis
            /\ last_tts' = p2.tts
            /\ playback' = p2.playback
            /\ played_before' = (played_before \/ playback.read \in ReadOutcomes)
            /\ fired_since_capture' =
                   CASE ev = "take_photo" -> FALSE
                     [] ev = "analyze" -> TRUE
                     [] OTHER -> fired_since_capture
            /\ UNCHANGED adapterCall

\* The browser opens the page: the first run of the script.
OpenPage ==
    /\ view = <<>>
    /\ Run("open", None, "", NoClick, NoAnalysis, "audio")

\* The user takes a new photo with the camera widget.
TakePhoto ==
    /\ Shows(view, CameraInput)
    /\ \E photo \in Photos \ {img_file_buffer} :
           Run("take_photo", photo, user_input, NoClick, NoAnalysis, "audio")

\* The user clears the photo of the camera widget.
ClearPhoto ==
    /\ Shows(view, CameraInput)
    /\ img_file_buffer # None
    /\ Run("clear_photo", None, user_input, NoClick, NoAnalysis, "audio")

\* The user clicks "Analyze Photo for Words".
ClickAnalyze ==
    /\ Shows(view, AnalyzeButton)
    /\ \E call \in AnalysisCalls :
           Run("analyze", img_file_buffer, user_input, AnalyzeButton, call, "audio")

\* The user clicks the pronounce button of a row.
ClickPronounce ==
    \E name \in {"mug", "key", "pen"}, tts_env \in TtsEnvs :
        /\ Shows(view, PronounceButton(name))
        /\ Run("pronounce", img_file_buffer, user_input, PronounceButton(name), NoAnalysis, tts_env)

\* The user clicks one of the two recording buttons.
ClickStartRecording ==
    /\ Shows(view, StartButton)
    /\ Run("start_recording", img_file_buffer, user_input, StartButton, NoAnalysis, "audio")

ClickStopRecording ==
    /\ Shows(view, StopButton)
    /\ Run("stop_recording", img_file_buffer, user_input, StopButton, NoAnalysis, "audio")

\* The user changes the text of the text box.
TypeText ==
    /\ Shows(view, TextInput)
    /\ \E text \in Texts \ {user_input} :
           Run("type", img_file_buffer, text, NoClick, NoAnalysis, "audio")

\* The user clicks "Send to AI".
ClickSend ==
    /\ Shows(view, SendButton)
    /\ Run("send", img_file_buffer, user_input, SendButton, NoAnalysis, "audio")

Next ==
    \/ OpenPage
    \/ TakePhoto
    \/ ClearPhoto
    \/ ClickAnalyze
    \/ ClickPronounce
    \/ ClickStartRecording
    \/ ClickStopRecording
    \/ TypeText
    \/ ClickSend

Spec == Init /\ [][Next]_vars

\* A session that starts with the path of a recording in audio_filename, the
\* file there or not.  No line of the script assigns audio_filename, so the
\* playback block (lines 202-216) is entered from such a session only.
InitPlayback ==
    /\ \E exists \in BOOLEAN : InitPage([audio_filename |-> AudioPath], exists)
    /\ adapterCall = IdleAdapter

SpecPlayback == InitPlayback /\ [][Next]_vars

\* ------------------------------------------ the adapter on its own

InitAdapter ==
    /\ InitPage([k \in {} |-> None], FALSE)
    /\ adapterCall \in {[env |-> e, out |-> NoCall] : e \in AnalysisEnvs}

\* analyze_image_for_words is called on the answer of the state.
CallAdapter ==
    /\ adapterCall.out.calls < MaxCalls
    /\ \E r \in {analyze_image_for_words(adapterCall.env)} :
           adapterCall' = [adapterCall EXCEPT !.out =
               [calls |-> @.calls + 1, returned |-> r.returned, errors |-> r.errors,
                raised |-> r.raised, path |-> r.path]]
    /\ UNCHANGED page_vars

NextAdapter == CallAdapter

SpecAdapter == InitAdapter /\ [][NextAdapter]_vars

\* ------------------------------------------------------------ properties

\* Every key of lines 106-117 is set: the script has run.
Loaded == DOMAIN session_state = DOMAIN Defaults

\* Every element of a list is a record with english_name and chinese_name.
WellShaped(objs) ==
    \A i \in 1..Len(objs) :
        objs[i].kind = "dict" /\ {"english_name", "chinese_name"} \subseteq objs[i].keys

\* C1: from the capture of a new photo until Analyze is clicked for it,
\* analyzed_objects is empty.
C1_NewPhotoDiscardsAnalysis ==
    (Loaded /\ img_file_buffer # None /\ ~fired_since_capture)
        => session_state.analyzed_objects = <<>>

\* C2: analyzed_objects is empty or the whole list the most recent successful
\* analysis returned, which holds what the model listed, in the model's order;
\* after a failed analysis it is empty.
C2_AnalyzedObjectsWhole ==
    Loaded =>
        /\ \/ session_state.analyzed_objects = <<>>
           \/ /\ last_analysis.path = "ok"
              /\ session_state.analyzed_objects = last_analysis.returned
              /\ Flatten(session_state.analyzed_objects) = last_analysis.model_values
        /\ last_analysis.path \in {"format", "json", "exception"}
               => session_state.analyzed_objects = <<>>

\* A batch of two records in the model's order is stored, after an event that
\* is no analysis.
C2_Witness ==
    /\ Loaded
    /\ last_analysis.path = "ok"
    /\ event = "type"
    /\ Len(session_state.analyzed_objects) = 2
    /\ session_state.analyzed_objects[1].english_name = "key"
    /\ session_state.analyzed_objects[2].english_name = "mug"

\* The text is bracketed and json.loads decodes it.
ParseableArray(text) ==
    /\ startswith(strip(text), "[")
    /\ endswith(strip(text), "]")
    /\ json_loads(strip(text)).ok

\* C3: on an answer that is no parseable bracketed JSON array, every call of
\* analyze_image_for_words returns [], emits exactly one error and raises nothing.
C3_MalformedResponseOneError ==
    (/\ adapterCall.out.calls >= 1
     /\ adapterCall.env.decode
     /\ adapterCall.env.remote
     /\ ~ParseableArray(adapterCall.env.text))
        => /\ adapterCall.out.returned = <<>>
           /\ Len(adapterCall.out.errors) = 1
           /\ ~adapterCall.out.raised

\* The adapter was called twice on a bracketed text that is no JSON.
C3_Witness ==
    /\ adapterCall.out.calls = 2
    /\ adapterCall.env.text = <<"[", "MUG", ",", "]">>
    /\ adapterCall.out.path = "json"

\* C4: an answer that parses to a list of the wrong shape is reported, leaves
\* analyzed_objects empty, and no run ends in an uncaught exception.
C4_MalformedShapeDegrades ==
    (Loaded /\ last_analysis.path = "ok" /\ ~WellShaped(last_analysis.returned))
        => /\ session_state.analyzed_objects = <<>>
           /\ last_analysis.errors # <<>>
           /\ Fault(view) = None

C6_OneErrorPerRequest ==
    (event = "pronounce" /\ last_tts.failed)
        => /\ last_tts.returned = None
           /\ ~last_tts.raised
           /\ Len(Errors(view)) = 1

\* C6, amended: a failed synthesis makes get_tts_audio return None, emit
\* exactly one error and raise nothing; the pronounce handler then shows a
\* second error, so the request shows two.
C6_AdapterErrorThenHandlerError ==
    (event = "pronounce" /\ last_tts.failed)
        => /\ last_tts.returned = None
           /\ ~last_tts.raised
           /\ Len(last_tts.errors) = 1
           /\ Errors(view) = <<El("error", "tts_failed"), El("error", "cannot_pronounce")>>

\* The pronounce button of "mug" was clicked and the synthesis failed.
C6_Witness ==
    /\ event = "pronounce"
    /\ last_tts.failed
    /\ last_tts.text = "mug"

\* C7: after Send to AI on a typed text, the conversation ends with the
\* user's message and the assistant's reply, and the page shows them.
C7_SendAppendsMessageAndReply ==
    (Loaded /\ event = "send" /\ user_input # "")
        => /\ Len(session_state.conversation) >= 2
           /\ session_state.conversation[Len(session_state.conversation) - 1]
                  = [role |-> "user", text |-> user_input]
           /\ session_state.conversation[Len(session_state.conversation)].role = "assistant"
           /\ Shows(view, El("chat_user", user_input))

\* C8: an analysis ends with objects, or with no objects and an error (shown
\* by the handler's run or on the page the user sees next).
C8_AnalyzeEndsCompleteOrFailed ==
    (Loaded /\ event = "analyze")
        => \/ session_state.analyzed_objects # <<>>
           \/ /\ session_state.analyzed_objects = <<>>
              /\ (last_analysis.errors # <<>> \/ Errors(view) # <<>>)

\* C9: no two rows of the stored batch have the same pronounce key, and no
\* run ends on a duplicate key.
C9_PronounceKeysDistinct ==
    Loaded =>
        /\ \A i, j \in 1..Len(session_state.analyzed_objects) :
               (/\ i # j
                /\ session_state.analyzed_objects[i].kind = "dict"
                /\ session_state.analyzed_objects[j].kind = "dict")
                   => PronounceButton(session_state.analyzed_objects[i].english_name)
                          # PronounceButton(session_state.analyzed_objects[j].english_name)
        /\ Fault(view) # "DuplicateWidgetID"

\* The fields no handler writes keep the values lines 106-117 gave them.
InertFields ==
    \A k \in DOMAIN session_state \cap {"conversation", "feedback_log", "is_recording"} :
        session_state[k] = Defaults[k]

\* A key that is set stays set, and changes only as current_image when a photo
\* is taken or as analyzed_objects when Analyze is clicked.
OnlyHandlersWrite ==
    \A k \in DOMAIN session_state :
        /\ k \in DOMAIN session_state'
        /\ session_state'[k] # session_state[k]
               => \/ k = "current_image" /\ event' = "take_photo"
                  \/ k = "analyzed_objects" /\ event' = "analyze"

\* C10: handlers write current_image and analyzed_objects only; conversation
\* and feedback_log stay empty, audio_filename absent, is_recording false, and
\* no run resets a key that is set.
C10_OnlyImageAndObjectsWritten ==
    /\ [](InertFields /\ (Loaded => session_state.audio_filename = None))
    /\ [][OnlyHandlersWrite]_vars

\* A text was typed and sent while a photo and its analysis are stored.
C10_Witness ==
    /\ Loaded
    /\ event = "send"
    /\ user_input = "hello"
    /\ session_state.current_image = "B"
    /\ session_state.analyzed_objects # <<>>
    /\ session_state.conversation = <<>>
====
